---- MODULE Spec2Model ----
(***************************************************************************)
(* State-machine model of the realtime meeting interpreter client:         *)
(*   - useRealtimeScribe: connect / disconnect, the transcription          *)
(*     connection's event handlers and the audio-capture resources;        *)
(*   - Home: the committed-translation effect and the debounced            *)
(*     partial-translation effect;                                         *)
(*   - tap.port.onmessage: the chunk loop that cuts the resampled audio    *)
(*     into frames;                                                        *)
(*   - downsampleFloat32ToInt16PCM: the length of the resampled audio;     *)
(*   - POST /api/translate: the translation relay;                         *)
(*   - GET/POST /api/scribe-token: the token relay.                        *)
(* React is modelled by two layers of state: the latest value of every     *)
(* useState cell (what a setter has written) and `rendered`, the values    *)
(* captured by the closures of the last render.  Handlers read `rendered`  *)
(* and write the latest values; Render publishes the latest values and     *)
(* runs the effects whose dependencies changed.                            *)
(***************************************************************************)
EXTENDS Integers, Sequences, FiniteSets, TLC

\* ---------------------------------------------------------------- bounds
MaxConnects == 2      \* connect calls that pass the guard
MaxFailures == 1      \* release steps that throw in one run of disconnect
MaxLines == 3         \* committed transcript lines created
MaxSummaryLines == 4  \* committed lines of a session that follows the summary
MaxContextLines == 13 \* committed lines of a session that reconnects
MaxCallbacks == 4     \* worklet callbacks of one capture
MaxContextFrames == 2 \* worklet callbacks of one capture of a reconnecting session
MaxEvents == 3        \* committed_transcript events, with or without text
MaxInput == 128       \* samples of one Float32Array given to the resampler

Calls == 1..MaxConnects

\* ---------------------------------------------------------------- text
\* A text is a sequence of one-character strings.
RECURSIVE TrimStart(_)
TrimStart(s) == IF s # <<>> /\ Head(s) = " " THEN TrimStart(Tail(s)) ELSE s

RECURSIVE TrimEnd(_)
TrimEnd(s) ==
  IF s # <<>> /\ s[Len(s)] = " " THEN TrimEnd(SubSeq(s, 1, Len(s) - 1)) ELSE s

trim(s) == TrimEnd(TrimStart(s))

EmptyText == <<>>

VARIABLES
  \* useRealtimeScribe: useState cells (latest values)
  isConnected, isConnecting, lastError, partialTranscript, committed,
  \* useRealtimeScribe: useRef cells; 0 is null, k names the resource
  \* created by connect call k
  connectionRef, audioCleanupRef, workletUrlRef, audioContextRef,
  mediaRecorderRef,
  \* the values captured by the closures of the last render
  rendered,
  \* connect calls: position of each call and the resources it created
  pc, res,
  \* number of times each release operation was invoked on the resources of
  \* each connect call
  relCalls,
  \* whether the last step of the hook was a run of disconnect, and whether
  \* that run threw
  lastDisc,
  \* per connect call: the `committed` its closure captured
  connectCommitted,
  \* per connect call: the locals pendingBytes and firstChunk that
  \* tap.port.onmessage closes over
  pendingBytes, firstChunk,
  \* per connect call: the number of resampled bytes produced so far, the
  \* number of worklet callbacks, and the frames handed to connection.send in
  \* order, each with its previousText and whether send accepted it
  produced, callbacks, handed,
  \* the number of committed_transcript events the handlers have received
  committedEvents,
  \* the last call of downsampleFloat32ToInt16PCM: input.length, the two
  \* rates and the length of the Int16Array returned
  resampleCall

tapVars == <<pendingBytes, firstChunk, produced, callbacks, handed, resampleCall>>

hookVars == <<isConnected, isConnecting, lastError, partialTranscript,
              committed, connectionRef, audioCleanupRef, workletUrlRef,
              audioContextRef, mediaRecorderRef, pc, res, relCalls,
              connectCommitted, tapVars, committedEvents>>

\* ------------------------------------------------- resources of a connect call
NoResources ==
  [conn |-> "none", stream |-> "none", recorder |-> "none", ctx |-> "none",
   url |-> "none", handler |-> FALSE, nodes |-> {}]

NoCalls == [close |-> 0, cleanup |-> 0, stop |-> 0, ctxClose |-> 0, revoke |-> 0]

NoRun == [ran |-> FALSE, threw |-> FALSE, order |-> <<>>]

GraphNodes == {"source", "tap", "mute"}

\* The calls of disconnect that can fail; ctxClose is the rejection of the
\* promise ctx.close() returns.  URL.revokeObjectURL does not fail.
DisconnectSteps ==
  {"close", "onmessage", "source", "tap", "mute", "tracks", "stop", "ctxClose"}

Refs ==
  [connectionRef |-> connectionRef, audioCleanupRef |-> audioCleanupRef,
   workletUrlRef |-> workletUrlRef, audioContextRef |-> audioContextRef,
   mediaRecorderRef |-> mediaRecorderRef]

Bump(n) == IF n < 2 THEN n + 1 ELSE 2

\* A run of disconnect is a fold of its release steps over m:
\*   m.refs  the useRef cells, m.res the resources, m.rel the release calls,
\*   m.threw an exception is propagating (the remaining steps are skipped),
\*   m.order the release operations the run has invoked, in order.
\* f is the set of calls that throw in this run.

\* closeStep without the reset of connectionRef in its finally block
closeStep_KeepRef(m, f) ==
  LET k == m.refs.connectionRef IN
  IF m.threw THEN m
  ELSE [m EXCEPT
         !.res = IF k # 0 /\ "close" \notin f
                 THEN [m.res EXCEPT ![k].conn = "closed"] ELSE m.res,
         !.rel = IF k # 0 THEN [m.rel EXCEPT ![k].close = Bump(@)] ELSE m.rel]

\* closeStep without its try / catch / finally: a throwing close() propagates
closeStep_NoCatch(m, f) ==
  LET k == m.refs.connectionRef IN
  IF m.threw THEN m
  ELSE IF k # 0 /\ "close" \in f
  THEN [m EXCEPT !.rel = [m.rel EXCEPT ![k].close = Bump(@)], !.threw = TRUE]
  ELSE [m EXCEPT
         !.res = IF k # 0 THEN [m.res EXCEPT ![k].conn = "closed"] ELSE m.res,
         !.rel = IF k # 0 THEN [m.rel EXCEPT ![k].close = Bump(@)] ELSE m.rel,
         !.refs.connectionRef = 0]

\* try { connectionRef.current?.close() } catch {} finally { ... = null }
closeStep(m, f) ==
  LET k == m.refs.connectionRef IN
  IF m.threw THEN m
  ELSE [m EXCEPT
         !.res = IF k # 0 /\ "close" \notin f
                 THEN [m.res EXCEPT ![k].conn = "closed"] ELSE m.res,
         !.rel = IF k # 0 THEN [m.rel EXCEPT ![k].close = Bump(@)] ELSE m.rel,
         !.refs.connectionRef = 0,
         !.order = IF k # 0 THEN Append(@, "close") ELSE @]

\* The closure stored in audioCleanupRef by connect call k: five statements,
\* each in its own try {} catch {}.
audioCleanup(rs, k, f) ==
  [rs EXCEPT
     ![k].handler = IF "onmessage" \in f THEN @ ELSE FALSE,
     ![k].nodes   = @ \cap f,
     ![k].stream  = IF "tracks" \in f THEN @ ELSE "stopped"]

\* try { audioCleanupRef.current?.() } catch {} finally { ... = null }
cleanupStep(m, f) ==
  LET k == m.refs.audioCleanupRef IN
  IF m.threw THEN m
  ELSE [m EXCEPT
         !.res = IF k # 0 THEN audioCleanup(m.res, k, f) ELSE m.res,
         !.rel = IF k # 0 THEN [m.rel EXCEPT ![k].cleanup = Bump(@)] ELSE m.rel,
         !.refs.audioCleanupRef = 0,
         !.order = IF k # 0 THEN Append(@, "cleanup") ELSE @]

\* try { mediaRecorderRef.current?.stop() } catch {} finally { ... = null }
stopStep(m, f) ==
  LET k == m.refs.mediaRecorderRef IN
  IF m.threw THEN m
  ELSE [m EXCEPT
         !.res = IF k # 0 /\ "stop" \notin f
                 THEN [m.res EXCEPT ![k].recorder = "stopped"] ELSE m.res,
         !.rel = IF k # 0 THEN [m.rel EXCEPT ![k].stop = Bump(@)] ELSE m.rel,
         !.refs.mediaRecorderRef = 0,
         !.order = IF k # 0 THEN Append(@, "stop") ELSE @]

\* const ctx = audioContextRef.current; audioContextRef.current = null;
\* if (ctx) void ctx.close().catch(() => {})
ctxStep(m, f) ==
  LET k == m.refs.audioContextRef IN
  IF m.threw THEN m
  ELSE [m EXCEPT
         !.res = IF k # 0 /\ "ctxClose" \notin f
                 THEN [m.res EXCEPT ![k].ctx = "closed"] ELSE m.res,
         !.rel = IF k # 0 THEN [m.rel EXCEPT ![k].ctxClose = Bump(@)] ELSE m.rel,
         !.refs.audioContextRef = 0,
         !.order = IF k # 0 THEN Append(@, "ctxClose") ELSE @]

\* if (workletUrlRef.current) { URL.revokeObjectURL(...); ... = null }
revokeStep(m, f) ==
  LET k == m.refs.workletUrlRef IN
  IF m.threw THEN m
  ELSE [m EXCEPT
         !.res = IF k # 0 THEN [m.res EXCEPT ![k].url = "revoked"] ELSE m.res,
         !.rel = IF k # 0 THEN [m.rel EXCEPT ![k].revoke = Bump(@)] ELSE m.rel,
         !.refs.workletUrlRef = 0,
         !.order = IF k # 0 THEN Append(@, "revoke") ELSE @]

\* The calls a run of disconnect makes with the refs rf: only these can throw.
Executed(rf) ==
  (IF rf.connectionRef # 0 THEN {"close"} ELSE {})
  \cup (IF rf.audioCleanupRef # 0
        THEN {"onmessage", "source", "tap", "mute", "tracks"} ELSE {})
  \cup (IF rf.mediaRecorderRef # 0 THEN {"stop"} ELSE {})
  \cup (IF rf.audioContextRef # 0 THEN {"ctxClose"} ELSE {})

\* a teardown that closes the audio context before it stops the capture
Teardown_ContextFirst(rf, rs, rc, f) ==
  revokeStep(stopStep(cleanupStep(ctxStep(closeStep(
    [refs |-> rf, res |-> rs, rel |-> rc, threw |-> FALSE, order |-> <<>>],
    f), f), f), f), f)

\* the release steps of disconnect, in the order of its statements
Teardown(rf, rs, rc, f) ==
  revokeStep(ctxStep(stopStep(cleanupStep(closeStep(
    [refs |-> rf, res |-> rs, rel |-> rc, threw |-> FALSE, order |-> <<>>],
    f), f), f), f), f)

\* disconnect(): setIsConnecting(false); setIsConnected(false); the release
\* steps.  rf and rs are the refs and resources at the time of the call.
disconnect(rf, rs, f) ==
  LET m == Teardown(rf, rs, relCalls, f) IN
  /\ f \subseteq Executed(rf)
  /\ isConnecting' = FALSE
  /\ isConnected' = FALSE
  /\ res' = m.res
  /\ relCalls' = m.rel
  /\ connectionRef' = m.refs.connectionRef
  /\ audioCleanupRef' = m.refs.audioCleanupRef
  /\ mediaRecorderRef' = m.refs.mediaRecorderRef
  /\ audioContextRef' = m.refs.audioContextRef
  /\ workletUrlRef' = m.refs.workletUrlRef
  /\ lastDisc' = [ran |-> TRUE, threw |-> m.threw, order |-> m.order]


\* --------------------------------------------------------------- connect
\* The sets of release calls that may throw in one run of disconnect.
FailureSets == {f \in SUBSET DisconnectSteps : Cardinality(f) <= MaxFailures}

\* catch (e) { setLastError(msg); setIsConnected(false);
\*             setIsConnecting(false); disconnect(); } of connect call k
connectCatch(k, rf, rs, f) ==
  /\ lastError' = "error"
  /\ disconnect(rf, rs, f)
  /\ pc' = [pc EXCEPT ![k] = "failed"]

\* connect(), up to the first await: the guard reads the isConnected and
\* isConnecting of the render that created the callback.
ConnectCall(k) ==
  /\ pc[k] = "none"
  /\ \A j \in 1..(k - 1) : pc[j] # "none"
  /\ ~(rendered.isConnected \/ rendered.isConnecting)
  /\ lastError' = "null"
  /\ partialTranscript' = EmptyText
  /\ isConnecting' = TRUE
  /\ pc' = [pc EXCEPT ![k] = "token"]
  /\ connectCommitted' = [connectCommitted EXCEPT ![k] = rendered.committed]
  /\ lastDisc' = NoRun
  /\ UNCHANGED <<isConnected, committed, connectionRef, audioCleanupRef,
                 workletUrlRef, audioContextRef, mediaRecorderRef, res,
                 relCalls, tapVars, committedEvents>>

\* The token fetch settles.  ok: Scribe.connect, connectionRef, the event
\* handlers, then the call waits for getUserMedia.  Otherwise the catch.
TokenDone(k, ok, f) ==
  /\ pc[k] = "token"
  /\ IF ok
     THEN /\ res' = [res EXCEPT ![k].conn = "connecting"]
          /\ connectionRef' = k
          /\ pc' = [pc EXCEPT ![k] = "gum"]
          /\ lastDisc' = NoRun
          /\ UNCHANGED <<isConnected, isConnecting, lastError, audioCleanupRef,
                         workletUrlRef, audioContextRef, mediaRecorderRef,
                         relCalls>>
     ELSE connectCatch(k, Refs, res, f)
  /\ UNCHANGED <<partialTranscript, committed, connectCommitted, tapVars,
                 committedEvents>>

\* getUserMedia settles.  granted: the stream, the optional MediaRecorder
\* (recOk: its constructor and start succeed), new AudioContext() (ctxOk),
\* then the call waits for the worklet module.  Otherwise the catch.
GumDone(k, granted, recOk, ctxOk, f) ==
  LET rs1 == [res EXCEPT ![k].stream = "live"]
      rs2 == IF recOk THEN [rs1 EXCEPT ![k].recorder = "recording"] ELSE rs1
      rf2 == IF recOk THEN [Refs EXCEPT !.mediaRecorderRef = k] ELSE Refs
  IN
  /\ pc[k] = "gum"
  /\ IF ~granted
     THEN connectCatch(k, Refs, res, f)
     ELSE IF ~ctxOk
     THEN connectCatch(k, rf2, rs2, f)
     ELSE /\ res' = [rs2 EXCEPT ![k].ctx = "running"]
          /\ mediaRecorderRef' = rf2.mediaRecorderRef
          /\ audioContextRef' = k
          /\ pc' = [pc EXCEPT ![k] = "worklet"]
          /\ lastDisc' = NoRun
          /\ UNCHANGED <<isConnected, isConnecting, lastError, connectionRef,
                         audioCleanupRef, workletUrlRef, relCalls>>
  /\ UNCHANGED <<partialTranscript, committed, connectCommitted, tapVars,
                 committedEvents>>

\* loadInlineWorklet settles.  "load": addModule rejects after the blob URL
\* was created; "graph": building the nodes throws after workletUrlRef was
\* set; "ok": the graph is wired, tap.port.onmessage and audioCleanupRef are
\* set and connect returns.
WorkletDone(k, outcome, f) ==
  LET rs1 == [res EXCEPT ![k].url = "live"] IN
  /\ pc[k] = "worklet"
  /\ CASE outcome = "load" ->
            connectCatch(k, Refs, rs1, f) /\ UNCHANGED <<pendingBytes, firstChunk>>
       [] outcome = "graph" ->
            /\ connectCatch(k, [Refs EXCEPT !.workletUrlRef = k], rs1, f)
            /\ UNCHANGED <<pendingBytes, firstChunk>>
       [] outcome = "ok" ->
            /\ res' = [rs1 EXCEPT ![k].nodes = GraphNodes, ![k].handler = TRUE]
            /\ pendingBytes' = [pendingBytes EXCEPT ![k] = <<>>]
            /\ firstChunk' = [firstChunk EXCEPT ![k] = TRUE]
            /\ workletUrlRef' = k
            /\ audioCleanupRef' = k
            /\ pc' = [pc EXCEPT ![k] = "done"]
            /\ lastDisc' = NoRun
            /\ UNCHANGED <<isConnected, isConnecting, lastError, connectionRef,
                           audioContextRef, mediaRecorderRef, relCalls>>
  /\ UNCHANGED <<partialTranscript, committed, connectCommitted, produced,
                 callbacks, handed, committedEvents, resampleCall>>

\* The Stop button, the unmount cleanup, or any other caller of disconnect.
Disconnect(f) ==
  /\ disconnect(Refs, res, f)
  /\ UNCHANGED <<lastError, partialTranscript, committed, pc, connectCommitted,
                 tapVars, committedEvents>>

\* ------------------------------------------- events of the connection of call k
Live(k) == res[k].conn \in {"connecting", "open"}

OnOpen(k) ==
  /\ res[k].conn = "connecting"
  /\ res' = [res EXCEPT ![k].conn = "open"]
  /\ isConnected' = TRUE
  /\ isConnecting' = FALSE
  /\ lastDisc' = NoRun
  /\ UNCHANGED <<lastError, partialTranscript, committed, connectionRef,
                 audioCleanupRef, workletUrlRef, audioContextRef,
                 mediaRecorderRef, pc, relCalls, connectCommitted, tapVars,
                 committedEvents>>

\* The service closes the connection.
OnClose(k) ==
  /\ Live(k)
  /\ res' = [res EXCEPT ![k].conn = "closed"]
  /\ isConnected' = FALSE
  /\ isConnecting' = FALSE
  /\ lastDisc' = NoRun
  /\ UNCHANGED <<lastError, partialTranscript, committed, connectionRef,
                 audioCleanupRef, workletUrlRef, audioContextRef,
                 mediaRecorderRef, pc, relCalls, connectCommitted, tapVars,
                 committedEvents>>

OnError(k) ==
  /\ Live(k)
  /\ lastError' = "error"
  /\ lastDisc' = NoRun
  /\ UNCHANGED <<isConnected, isConnecting, partialTranscript, committed,
                 connectionRef, audioCleanupRef, workletUrlRef, audioContextRef,
                 mediaRecorderRef, pc, res, relCalls, connectCommitted, tapVars,
                 committedEvents>>


\* --------------------------------------------------- the chunk loop of the tap
\* const targetSampleRate = 16000; const chunkMs = 200
targetSampleRate == 16000
chunkMs == 200

\* Math.round((targetSampleRate * (chunkMs / 1000)) * 2)
bytesPerChunk == (targetSampleRate * chunkMs * 2 + 500) \div 1000

\* A byte of the resampled stream is named by its position in the stream (the
\* first byte produced is byte 1), and an array of bytes is written as the
\* sequence of its maximal runs of consecutive positions, [lo, hi] each: the
\* array 5,6,7,3,3 is <<[5,7], [3,3], [3,3]>>.
RECURSIVE Size(_)
Size(p) == IF p = <<>> THEN 0 ELSE (Head(p).hi - Head(p).lo + 1) + Size(Tail(p))

\* the array p followed by the array q
Cat(p, q) ==
  IF p = <<>> THEN q
  ELSE IF q = <<>> THEN p
  ELSE LET a == p[Len(p)]
           b == Head(q)
       IN IF a.hi + 1 = b.lo
          THEN SubSeq(p, 1, Len(p) - 1) \o <<[lo |-> a.lo, hi |-> b.hi]>> \o Tail(q)
          ELSE p \o q

\* p.slice(0, n)
RECURSIVE sliceTo(_, _)
sliceTo(p, n) ==
  IF n <= 0 \/ p = <<>> THEN <<>>
  ELSE LET h == Head(p)
           w == h.hi - h.lo + 1
       IN IF w <= n
          THEN Cat(<<h>>, sliceTo(Tail(p), n - w))
          ELSE <<[lo |-> h.lo, hi |-> h.lo + n - 1]>>

\* p.slice(n)
RECURSIVE sliceFrom(_, _)
sliceFrom(p, n) ==
  IF n <= 0 \/ p = <<>> THEN p
  ELSE LET h == Head(p)
           w == h.hi - h.lo + 1
       IN IF w <= n
          THEN sliceFrom(Tail(p), n - w)
          ELSE <<[lo |-> h.lo + n, hi |-> h.hi]>> \o Tail(p)

\* new Uint8Array(pcm16.buffer), for a pcm16 of n samples produced after
\* `before` bytes: two bytes per sample
u8Of(before, n) == <<[lo |-> before + 1, hi |-> before + 2 * n]>>

\* lines.slice(-12)
lastTwelve(lines) ==
  IF Len(lines) <= 12 THEN lines ELSE SubSeq(lines, Len(lines) - 11, Len(lines))

\* lines.map((c) => c.text).join("\n")
RECURSIVE joinTexts(_)
joinTexts(lines) ==
  IF lines = <<>> THEN <<>>
  ELSE IF Len(lines) = 1 THEN lines[1].text
  ELSE lines[1].text \o <<"\n">> \o joinTexts(Tail(lines))

NoPreviousText == [present |-> FALSE, text |-> <<>>]

\* ...(firstChunk && committed.length ? { previousText: ... } : null)
previousTextOf(first, lines) ==
  IF first /\ Len(lines) # 0
  THEN [present |-> TRUE, text |-> joinTexts(lastTwelve(lines))]
  ELSE NoPreviousText

\* a loop that leaves firstChunk as it was
afterSend_Keep(first) == first

\* finally { firstChunk = false }
afterSend(first) == FALSE

\* a loop that cuts each frame one byte short of the bytes it removes
chunkOf_Short(pending) == sliceTo(pending, bytesPerChunk - 1)

\* const chunk = pendingBytes.slice(0, bytesPerChunk)
chunkOf(pending) == sliceTo(pending, bytesPerChunk)

\* a loop that keeps the first byte of the next frame in the frame it removes
restOf_Overlap(pending) == sliceFrom(pending, bytesPerChunk - 1)

\* pendingBytes = pendingBytes.slice(bytesPerChunk)
restOf(pending) == sliceFrom(pending, bytesPerChunk)

\* a loop that waits for the connection to be open before it cuts frames
loopAgain_WhenOpen(pending, accepted) ==
  accepted /\ Size(pending) >= bytesPerChunk

\* while (pendingBytes.length >= bytesPerChunk)
loopAgain(pending, accepted) == Size(pending) >= bytesPerChunk

\* The loop, from the locals st.pending and st.first, appending the frames
\* given to send to st.out.  connection.send throws unless the connection is
\* open (accepted); the catch is empty.
RECURSIVE chunkLoop(_, _, _)
chunkLoop(st, lines, accepted) ==
  IF ~loopAgain(st.pending, accepted)
  THEN st
  ELSE chunkLoop(
         [pending |-> restOf(st.pending),
          first   |-> afterSend(st.first),
          out     |-> Append(st.out,
                        [bytes |-> chunkOf(st.pending),
                         previousText |-> previousTextOf(st.first, lines),
                         accepted |-> accepted])],
         lines, accepted)

\* tap.port.onmessage of connect call k, for an evt.data that resamples to n
\* samples.  The worklet posts while the stream is live and the context runs.
TapMessage(k, n) ==
  LET u8 == u8Of(produced[k], n)
      st == chunkLoop([pending |-> Cat(pendingBytes[k], u8),
                       first |-> firstChunk[k], out |-> <<>>],
                      connectCommitted[k], res[k].conn = "open")
  IN
  /\ res[k].handler
  /\ res[k].stream = "live"
  /\ res[k].ctx = "running"
  /\ pendingBytes' = [pendingBytes EXCEPT ![k] = st.pending]
  /\ firstChunk' = [firstChunk EXCEPT ![k] = st.first]
  /\ produced' = [produced EXCEPT ![k] = @ + 2 * n]
  /\ callbacks' = [callbacks EXCEPT ![k] = @ + 1]
  /\ handed' = [handed EXCEPT ![k] = @ \o st.out]
  /\ lastDisc' = NoRun
  /\ UNCHANGED <<isConnected, isConnecting, lastError, partialTranscript,
                 committed, connectionRef, audioCleanupRef, workletUrlRef,
                 audioContextRef, mediaRecorderRef, pc, res, relCalls,
                 connectCommitted, committedEvents, resampleCall>>

\* ------------------------------------------- downsampleFloat32ToInt16PCM
\* the sample rates an AudioContext runs at
InputRates == {16000, 44100, 48000}

NoResample == [length |-> 0, inputRate |-> 0, outputRate |-> 0, out |-> 0]

\* Math.round(num / den), for num >= 0 and den > 0
round(num, den) == (2 * num + den) \div (2 * den)

\* a length computed with Math.floor
newLength_Floor(len, inRate, outRate) ==
  IF (len * outRate) \div inRate < 1 THEN 1 ELSE (len * outRate) \div inRate

\* const ratio = inputSampleRate / outputSampleRate;
\* const newLength = Math.max(1, Math.round(input.length / ratio))
newLength(len, inRate, outRate) ==
  IF round(len * outRate, inRate) < 1 THEN 1 ELSE round(len * outRate, inRate)

\* the length of the Int16Array the function returns
outLength(len, inRate, outRate) ==
  IF outRate = inRate THEN len ELSE newLength(len, inRate, outRate)

\* one call of downsampleFloat32ToInt16PCM(input, inRate, targetSampleRate)
\* with an input of len samples
Downsample(len, inRate) ==
  /\ resampleCall' = [length |-> len, inputRate |-> inRate,
                      outputRate |-> targetSampleRate,
                      out |-> outLength(len, inRate, targetSampleRate)]
  /\ UNCHANGED <<isConnected, isConnecting, lastError, partialTranscript,
                 committed, connectionRef, audioCleanupRef, workletUrlRef,
                 audioContextRef, mediaRecorderRef, pc, res, relCalls,
                 connectCommitted, committedEvents, pendingBytes, firstChunk,
                 produced, callbacks, handed, lastDisc>>


\* ====================================================== the translate endpoint
VARIABLES
  \* the request POST is handling, and where POST stands: "idle" before a
  \* request, "upstream" at the await of the fetch to the model, "done"
  relayReq, relayPc,
  \* the fetches POST has made to the upstream model for this request
  upstreamCalls,
  \* what the upstream model answered and the response POST returned
  upstreamReply, relayResp

\* GET and POST /api/scribe-token
VARIABLES
  \* the token request being handled and where its handler stands
  \* ("idle", "upstream": awaiting the fetch, "done")
  mintReq, mintPc,
  \* the xi-api-key of each fetch made to the token service, what the
  \* service answered and the response the handler returned
  mintCalls, mintReply, mintResp

mintVars == <<mintReq, mintPc, mintCalls, mintReply, mintResp>>

relayVars == <<relayReq, relayPc, upstreamCalls, upstreamReply, relayResp,
               mintVars>>


\* ================================================================== Home
VARIABLES
  \* useLocalStorageState / useState cells (latest values)
  inputLang, targetLang, openaiKey, partialTranslation, translated, summary,
  \* useRef cells.  partialTimerRef and partialAbortRef are kept as the `cur`
  \* mark of the pending timer and of the in-flight request they refer to.
  translatedIdsRef, lastPartialSentRef,
  \* pending debounce timers, each with the values its callback closed over
  timers,
  \* partial-translation requests whose promise has not settled
  partialReqs,
  \* committed-translation requests whose promise has not settled
  committedReqs,
  \* the last run of the partial effect returned its cleanup function
  partialCleanup,
  \* setCommitted([]) replaced an empty array by a new empty array
  committedFresh,
  \* ids: the next committed line is line number nextLineId
  nextLineId,
  \* per line id, the relay requests and the mirrors initiated for it, and
  \* the languages selected when the effect handled the line
  initiated

homeVars == <<inputLang, targetLang, openaiKey, partialTranslation, translated,
              summary, translatedIdsRef, lastPartialSentRef, timers,
              partialReqs, committedReqs, partialCleanup, initiated>>

vars == <<hookVars, lastDisc, rendered, homeVars, committedFresh, nextLineId,
          relayVars>>

InputLangs  == {"auto", "en"}
TargetLangs == {"en", "ja"}
ApiKeys     == {"", "sk"}

\* what the transcription service sends
PartialTexts   == {<<>>, <<"a">>, <<"b", " ">>}
CommittedTexts == {<<" ">>, <<" ", "a">>, <<"b">>}
\* what the relay answers as updatedSummary
SummaryOutputs == {"", "S1"}

\* the ids a session can create under any of the bounds on its lines
LineIds == 1..(MaxLines + MaxSummaryLines + MaxContextLines)

Latest ==
  [isConnected |-> isConnected, isConnecting |-> isConnecting,
   partialTranscript |-> partialTranscript, committed |-> committed,
   inputLang |-> inputLang, targetLang |-> targetLang, summary |-> summary,
   openaiKey |-> openaiKey]

\* ------------------------------------------------- transcript event handlers
\* PARTIAL_TRANSCRIPT: setPartialTranscript(data.text || "")
OnPartial(k, text) ==
  /\ res[k].conn = "open"
  /\ partialTranscript' = text
  /\ lastDisc' = NoRun
  /\ UNCHANGED <<isConnected, isConnecting, lastError, committed, connectionRef,
                 audioCleanupRef, workletUrlRef, audioContextRef,
                 mediaRecorderRef, pc, res, relCalls, nextLineId,
                 committedFresh, connectCommitted, tapVars, committedEvents>>

\* COMMITTED_TRANSCRIPT: trim; return on empty text; append a line with a
\* fresh id; clear the partial.
OnCommitted(k, text) ==
  /\ res[k].conn = "open"
  /\ IF trim(text) = EmptyText
     THEN UNCHANGED <<committed, partialTranscript, nextLineId>>
     ELSE /\ committed' = Append(committed, [id |-> nextLineId, text |-> trim(text)])
          /\ partialTranscript' = EmptyText
          /\ nextLineId' = nextLineId + 1
  /\ committedEvents' = committedEvents + 1
  /\ lastDisc' = NoRun
  /\ UNCHANGED <<isConnected, isConnecting, lastError, connectionRef,
                 audioCleanupRef, workletUrlRef, audioContextRef,
                 mediaRecorderRef, pc, res, relCalls, committedFresh,
                 connectCommitted, tapVars>>

\* ------------------------------------------- the committed-translation effect
outLang(t) == IF t = "auto" THEN "en" ELSE t

\* the dedup test always answering no
AlreadyTranslated_Never(id) == FALSE

\* translatedIdsRef.current.has(last.id)
AlreadyTranslated(id) == id \in translatedIdsRef

\* a schedule that updates the summary on the line after every fourth
shouldUpdateSummary_Late(sum, n) == sum = "" \/ n % 4 = 1

\* const shouldUpdateSummary = summary.length === 0 || committed.length % 4 === 0
shouldUpdateSummary(sum, n) == sum = "" \/ n % 4 = 0

\* if (inputLang.value !== "auto" && inputLang.value === outLang)
sameLanguage(inL, tgtL) == inL # "auto" /\ inL = outLang(tgtL)

\* a mirror that appends a marked copy instead of the verbatim text
mirrorLine_Marked(last) == [sourceId |-> last.id, text |-> <<"#">> \o last.text]

\* the line the mirror appends: { sourceId: last.id, text: last.text }
mirrorLine(last) == [sourceId |-> last.id, text |-> last.text]

\* the bookkeeping of one initiation for line id under the languages of r
Note(id, r, how) ==
  [initiated EXCEPT
     ![id].relay  = IF how = "relay" THEN Bump(@) ELSE @,
     ![id].mirror = IF how = "mirror" THEN Bump(@) ELSE @,
     ![id].inputLang = r.inputLang,
     ![id].targetLang = r.targetLang]

\* The body of the effect for the render r.  The mirror's queueMicrotask runs
\* before any other task, so its setTranslated is part of the step.
CommittedEffect(r) ==
  LET n    == Len(r.committed)
      last == r.committed[n]
  IN
  IF n = 0 \/ AlreadyTranslated(last.id)
  THEN UNCHANGED <<translatedIdsRef, translated, committedReqs, initiated>>
  ELSE /\ translatedIdsRef' = translatedIdsRef \cup {last.id}
       /\ IF sameLanguage(r.inputLang, r.targetLang)
          THEN /\ translated' = Append(translated, mirrorLine(last))
               /\ initiated' = Note(last.id, r, "mirror")
               /\ UNCHANGED committedReqs
          ELSE /\ committedReqs' = committedReqs \cup
                    {[sourceId |-> last.id, text |-> last.text,
                      updateSummary |-> shouldUpdateSummary(r.summary, n)]}
               /\ initiated' = Note(last.id, r, "relay")
               /\ UNCHANGED translated

CommittedDepsChanged(r) ==
  \/ r.inputLang # rendered.inputLang
  \/ r.committed # rendered.committed
  \/ committedFresh
  \/ r.summary # rendered.summary
  \/ r.targetLang # rendered.targetLang
  \/ r.openaiKey # rendered.openaiKey


\* --------------------------------------------- the partial-translation effect
startsWith(t, p) == Len(p) <= Len(t) /\ SubSeq(t, 1, Len(p)) = p

\* if (partialTimerRef.current) window.clearTimeout(partialTimerRef.current)
clearTimer(ts) == {t \in ts : ~t.cur}

\* an abort that cancels nothing
abortCurrent_Noop(rq) == rq

\* partialAbortRef.current?.abort()
abortCurrent(rq) == {[q EXCEPT !.aborted = (q.aborted \/ q.cur)] : q \in rq}

\* partialTimerRef.current / partialAbortRef.current is overwritten
unmark(xs) == {[x EXCEPT !.cur = FALSE] : x \in xs}

\* The cleanup returned by the previous run (when it returned one), then the
\* body of the effect for the render r.
PartialEffect(r) ==
  LET ts0  == IF partialCleanup THEN clearTimer(timers) ELSE timers
      rq0  == IF partialCleanup THEN abortCurrent(partialReqs) ELSE partialReqs
      text == trim(r.partialTranscript)
  IN
  IF ~r.isConnected \/ text = EmptyText
  THEN /\ timers' = ts0
       /\ partialReqs' = rq0
       /\ partialTranslation' = EmptyText
       /\ partialCleanup' = FALSE
  ELSE /\ timers' = unmark(clearTimer(ts0)) \cup
                    {[text |-> text, inputLang |-> r.inputLang,
                      targetLang |-> r.targetLang, cur |-> TRUE]}
       /\ partialReqs' = abortCurrent(rq0)
       /\ partialCleanup' = TRUE
       /\ UNCHANGED partialTranslation

PartialDepsChanged(r) ==
  \/ CommittedDepsChanged(r)
  \/ r.isConnected # rendered.isConnected
  \/ r.partialTranscript # rendered.partialTranscript

\* One render with the state r: the closures see r, and the effects whose
\* dependencies changed run (committed-translation first).
RenderOf(r) ==
  /\ rendered' = r
  /\ committedFresh' = FALSE
  /\ IF CommittedDepsChanged(r)
     THEN CommittedEffect(r)
     ELSE UNCHANGED <<translatedIdsRef, translated, committedReqs, initiated>>
  /\ IF PartialDepsChanged(r)
     THEN PartialEffect(r)
     ELSE UNCHANGED <<timers, partialReqs, partialTranslation, partialCleanup>>

\* React renders the updates that event handlers and promise continuations
\* left pending.
Render ==
  /\ (Latest # rendered \/ committedFresh)
  /\ RenderOf(Latest)
  /\ UNCHANGED <<hookVars, lastDisc, inputLang, targetLang, openaiKey, summary,
                 lastPartialSentRef, nextLineId,
                 relayVars>>

\* a test that also skips a growth of exactly 6 characters
smallGrowth_Inclusive(prev, text) ==
  prev # EmptyText /\ startsWith(text, prev) /\ Len(text) - Len(prev) <= 6

\* if (prev && text.startsWith(prev) && text.length - prev.length < 6) return
smallGrowth(prev, text) ==
  prev # EmptyText /\ startsWith(text, prev) /\ Len(text) - Len(prev) < 6

\* The debounce timer t fires: the callback given to window.setTimeout.
PartialTimerFire(t) ==
  /\ t \in timers
  /\ timers' = timers \ {t}
  /\ IF smallGrowth(lastPartialSentRef, t.text)
     THEN UNCHANGED <<lastPartialSentRef, partialReqs, partialTranslation>>
     ELSE /\ lastPartialSentRef' = t.text
          /\ IF sameLanguage(t.inputLang, t.targetLang)
             THEN /\ partialTranslation' = t.text
                  /\ partialReqs' = unmark(partialReqs)
             ELSE /\ partialReqs' = unmark(partialReqs) \cup
                       {[text |-> t.text, aborted |-> FALSE, cur |-> TRUE]}
                  /\ UNCHANGED partialTranslation
  /\ UNCHANGED <<hookVars, lastDisc, rendered, inputLang, targetLang, openaiKey,
                 translated, summary, translatedIdsRef, committedReqs,
                 partialCleanup, initiated, committedFresh, nextLineId,
                 relayVars>>

\* ------------------------------------------------------- relay responses
\* How a translate call ends: "fail" (fetch rejects or the status is not ok),
\* "ignore" (shouldIgnore), "empty" (no translation), "text".
Replies == {"fail", "ignore", "empty", "text"}

\* res.translation of a reply to a request for text
translationOf(text, reply) ==
  IF reply = "text" THEN <<" ", "#">> \o text \o <<" ">> ELSE <<>>

\* a fetch that was given no signal: only a failure rejects
partialRejected_NoSignal(q, reply) == reply = "fail"

\* await translateViaApi({..., signal}) throws: the fetch was aborted through
\* its signal, or it failed
partialRejected(q, reply) == q.aborted \/ reply = "fail"

PartialResponse(q, reply) ==
  /\ q \in partialReqs
  /\ partialReqs' = partialReqs \ {q}
  /\ IF partialRejected(q, reply)
     THEN UNCHANGED partialTranslation
     ELSE partialTranslation' =
            IF reply = "ignore" THEN EmptyText
            ELSE trim(translationOf(q.text, reply))
  /\ UNCHANGED <<hookVars, lastDisc, rendered, inputLang, targetLang, openaiKey,
                 translated, summary, translatedIdsRef, lastPartialSentRef,
                 timers, committedReqs, partialCleanup, initiated,
                 committedFresh, nextLineId,
                 relayVars>>

\* a continuation that stores every non-empty updatedSummary
CommittedResponse_AnySummary(q, reply, sumOut) ==
  /\ q \in committedReqs
  /\ committedReqs' = committedReqs \ {q}
  /\ IF reply = "fail"
     THEN sumOut = "" /\ UNCHANGED <<summary, translated>>
     ELSE /\ summary' = IF sumOut # "" THEN sumOut ELSE summary
          /\ IF reply = "ignore" \/ trim(translationOf(q.text, reply)) = EmptyText
             THEN UNCHANGED translated
             ELSE translated' = Append(translated,
                    [sourceId |-> q.sourceId,
                     text |-> trim(translationOf(q.text, reply))])
  /\ UNCHANGED <<hookVars, lastDisc, rendered, inputLang, targetLang, openaiKey,
                 partialTranslation, translatedIdsRef, lastPartialSentRef,
                 timers, partialReqs, partialCleanup, initiated, committedFresh,
                 nextLineId, relayVars>>

\* The continuation of the committed-translation call for the request q:
\* the catch when it failed; otherwise setSummary when the request asked for
\* it and updatedSummary is a non-empty string, and setTranslated unless
\* shouldIgnore or an empty translation.
CommittedResponse(q, reply, sumOut) ==
  /\ q \in committedReqs
  /\ committedReqs' = committedReqs \ {q}
  /\ IF reply = "fail"
     THEN sumOut = "" /\ UNCHANGED <<summary, translated>>
     ELSE /\ summary' = IF q.updateSummary /\ sumOut # "" THEN sumOut ELSE summary
          /\ IF reply = "ignore" \/ trim(translationOf(q.text, reply)) = EmptyText
             THEN UNCHANGED translated
             ELSE translated' = Append(translated,
                    [sourceId |-> q.sourceId,
                     text |-> trim(translationOf(q.text, reply))])
  /\ UNCHANGED <<hookVars, lastDisc, rendered, inputLang, targetLang, openaiKey,
                 partialTranslation, translatedIdsRef, lastPartialSentRef,
                 timers, partialReqs, partialCleanup, initiated, committedFresh,
                 nextLineId,
                 relayVars>>

\* ----------------------------------------------------------- the settings
\* The handlers of the selects, inputs and buttons of Home run in discrete DOM
\* events (change, click): React renders their updates, and runs the effects
\* of that render, before the event returns, so each is one step with its
\* render.

\* The input-language select is disabled while connected or connecting.
SetInputLang(l) ==
  /\ ~(rendered.isConnected \/ rendered.isConnecting)
  /\ l # inputLang
  /\ inputLang' = l
  /\ RenderOf([Latest EXCEPT !.inputLang = l])
  /\ UNCHANGED <<hookVars, lastDisc, targetLang, openaiKey, summary,
                 lastPartialSentRef, nextLineId,
                 relayVars>>

SetTargetLang(l) ==
  /\ l # targetLang
  /\ targetLang' = l
  /\ RenderOf([Latest EXCEPT !.targetLang = l])
  /\ UNCHANGED <<hookVars, lastDisc, inputLang, openaiKey, summary,
                 lastPartialSentRef, nextLineId,
                 relayVars>>

SetOpenaiKey(v) ==
  /\ v # openaiKey
  /\ openaiKey' = v
  /\ RenderOf([Latest EXCEPT !.openaiKey = v])
  /\ UNCHANGED <<hookVars, lastDisc, inputLang, targetLang, summary,
                 lastPartialSentRef, nextLineId,
                 relayVars>>

\* Clear summary: setSummary("")
ClearSummary ==
  /\ summary' = ""
  /\ RenderOf([Latest EXCEPT !.summary = ""])
  /\ UNCHANGED <<hookVars, lastDisc, inputLang, targetLang, openaiKey,
                 lastPartialSentRef, nextLineId,
                 relayVars>>

\* reset(): setPartialTranscript(""); setCommitted([]); setLastError(null)
reset ==
  /\ partialTranscript' = EmptyText
  /\ committed' = <<>>
  /\ lastError' = "null"

\* Clear all: translatedIdsRef.current = new Set(); setTranslated([]);
\* setPartialTranslation(""); scribe.reset().  In its render the committed
\* history is a new empty array: the committed-translation effect returns at
\* once and the partial effect runs.
ClearAll ==
  LET r == [Latest EXCEPT !.committed = <<>>, !.partialTranscript = EmptyText] IN
  /\ translatedIdsRef' = {}
  /\ translated' = <<>>
  /\ reset
  /\ rendered' = r
  /\ committedFresh' = FALSE
  /\ PartialEffect(r)
  /\ lastDisc' = NoRun
  /\ UNCHANGED <<isConnected, isConnecting, connectionRef, audioCleanupRef,
                 workletUrlRef, audioContextRef, mediaRecorderRef, pc, res,
                 relCalls, inputLang, targetLang, openaiKey, summary,
                 lastPartialSentRef, committedReqs, initiated, nextLineId,
                 connectCommitted, tapVars, committedEvents, relayVars>>

\* ------------------------------------------------- POST /api/translate
\* a string of n characters
Chars(n) == [i \in 1..n |-> "x"]

NoRequest == [none |-> TRUE]
NoReply == [none |-> TRUE]
NoResponse == [status |-> 0]

\* process.env.OPENAI_API_KEY: unset, or set
EnvKeys == {<<>>, <<"e", "k">>}

\* the key header of a request: absent, blank, a key, or a padded key
HeaderKeys ==
  {[present |-> FALSE, value |-> <<>>],
   [present |-> TRUE, value |-> <<" ">>],
   [present |-> TRUE, value |-> <<"s", "k">>],
   [present |-> TRUE, value |-> <<" ", "h", "k">>]}

\* the request body: not JSON, the JSON null, or a TranslateRequestBody
Bodies ==
  {[valid |-> FALSE, isNull |-> FALSE, text |-> <<>>, summary |-> <<>>,
    updateSummary |-> FALSE, mode |-> "committed"],
   [valid |-> TRUE, isNull |-> TRUE, text |-> <<>>, summary |-> <<>>,
    updateSummary |-> FALSE, mode |-> "committed"]}
  \cup
  [valid : {TRUE}, isNull : {FALSE},
   text : {<<>>, <<" ">>, <<"h", "i">>},
   summary : {<<>>, Chars(3), Chars(800), Chars(801)},
   updateSummary : BOOLEAN,
   mode : {"partial", "committed"}]

Requests == [envKey : EnvKeys, headerKey : HeaderKeys, body : Bodies]

\* a field of the object the model's content parses to: a string, or absent
\* or of another type
Fields(values) ==
  {[isString |-> FALSE, value |-> <<>>]} \cup [isString : {TRUE}, value : values]

\* What the upstream fetch gives: a rejection (network error); a non-2xx
\* response; a 2xx response whose body is not JSON (unreadable) or is the
\* JSON null (nullBody); or a completion whose content is missing (null,
\* absent or ""), is not JSON, is the JSON null, or parses to a value with
\* these fields (a JSON number, string or array has none of them).
UpstreamReplies ==
  [ok : {FALSE}, content : {"rejected", "none"},
   detectedLanguage : {""}, shouldIgnore : {FALSE},
   translation : {[isString |-> FALSE, value |-> <<>>]},
   updatedSummary : {[isString |-> FALSE, value |-> <<>>]}]
  \cup
  [ok : {TRUE},
   content : {"unreadable", "nullBody", "missing", "notJson", "null"},
   detectedLanguage : {""}, shouldIgnore : {FALSE},
   translation : {[isString |-> FALSE, value |-> <<>>]},
   updatedSummary : {[isString |-> FALSE, value |-> <<>>]}]
  \cup
  [ok : {TRUE}, content : {"value"},
   detectedLanguage : {"", "en", "fr"}, shouldIgnore : BOOLEAN,
   translation : Fields({<<>>, <<"T">>}),
   updatedSummary : Fields({Chars(2), Chars(801)})]

\* s.slice(0, 800)
slice800(sq) == SubSeq(sq, 1, IF Len(sq) < 800 THEN Len(sq) ELSE 800)

\* getOpenAIKey: process.env.OPENAI_API_KEY || headerKey || null, with
\* headerKey = req.headers.get("x-openai-api-key")?.trim(); <<>> is null
getOpenAIKey(req) ==
  IF req.envKey # <<>> THEN req.envKey
  ELSE IF req.headerKey.present THEN trim(req.headerKey.value)
  ELSE <<>>

\* NextResponse.json({ error: msg }, { status: code })
ErrorResponse(code, msg) == [status |-> code, error |-> msg]

\* an exception left the handler: the framework answers 500 with no JSON
\* error body of the handler's
UncaughtException == [status |-> 500, uncaught |-> TRUE]

\* NextResponse.json(body, { status: 200 })
OkResponse(dl, si, tr, us) ==
  [status |-> 200, detectedLanguage |-> dl, shouldIgnore |-> si,
   translation |-> tr, updatedSummary |-> us]

\* a short circuit that answers with an empty summary
emptyReply_NoEcho(payload) == OkResponse("other", FALSE, <<>>, <<>>)

\* the response to a request whose text is empty:
\* { detectedLanguage: "other", shouldIgnore: false, translation: "",
\*   updatedSummary: payload.summary || "" }
emptyReply(payload) == OkResponse("other", FALSE, <<>>, payload.summary)

\* the bearer key, the model and the temperature (in tenths) of the
\* upstream call
upstreamCall(apiKey, payload) ==
  IF payload.mode = "partial"
  THEN [authorization |-> apiKey, model |-> "OPENAI_MODEL_PARTIAL", temperature |-> 1]
  ELSE [authorization |-> apiKey, model |-> "OPENAI_MODEL", temperature |-> 2]

\* POST, up to its first response or to the await of the upstream fetch
POST(req) ==
  /\ relayPc = "idle"
  /\ relayReq' = req
  /\ upstreamReply' = NoReply
  /\ IF getOpenAIKey(req) = <<>>
     THEN /\ relayResp' = ErrorResponse(500, "Missing OPENAI_API_KEY.")
          /\ relayPc' = "done"
          /\ upstreamCalls' = <<>>
     ELSE IF ~req.body.valid
     THEN /\ relayResp' = ErrorResponse(400, "Invalid JSON body.")
          /\ relayPc' = "done"
          /\ upstreamCalls' = <<>>
     ELSE IF req.body.isNull
     THEN /\ relayResp' = UncaughtException
          /\ relayPc' = "done"
          /\ upstreamCalls' = <<>>
     ELSE IF trim(req.body.text) = <<>>
     THEN /\ relayResp' = emptyReply(req.body)
          /\ relayPc' = "done"
          /\ upstreamCalls' = <<>>
     ELSE /\ relayResp' = NoResponse
          /\ relayPc' = "upstream"
          /\ upstreamCalls' = <<upstreamCall(getOpenAIKey(req), req.body)>>
  /\ UNCHANGED mintVars

\* Normalize / guardrails: the response built from the parsed content
normalize(payload, up) ==
  OkResponse(
    IF up.detectedLanguage \in {"en", "ja", "ko"} THEN up.detectedLanguage ELSE "other",
    up.shouldIgnore,
    IF up.translation.isString THEN up.translation.value ELSE <<>>,
    IF up.updatedSummary.isString
    THEN slice800(up.updatedSummary.value)
    ELSE slice800(payload.summary))

\* POST, from the upstream fetch's answer to its response.  Nothing catches
\* a rejection of fetch or of resp.json(), and reading a field of the JSON
\* null throws.
UpstreamDone(up) ==
  /\ relayPc = "upstream"
  /\ relayPc' = "done"
  /\ upstreamReply' = up
  /\ relayResp' =
       IF up.content = "rejected" THEN UncaughtException
       ELSE IF ~up.ok THEN ErrorResponse(502, "Translation request failed.")
       ELSE IF up.content \in {"unreadable", "nullBody"} THEN UncaughtException
       ELSE IF up.content = "missing"
       THEN ErrorResponse(502, "Model response missing content.")
       ELSE IF up.content = "notJson"
       THEN ErrorResponse(502, "Model response was not valid JSON.")
       ELSE IF up.content = "null" THEN UncaughtException
       ELSE normalize(relayReq.body, up)
  /\ UNCHANGED <<relayReq, upstreamCalls, mintVars>>

\* -------------------------------------------- GET/POST /api/scribe-token
\* the request: its method, process.env.ELEVENLABS_API_KEY and the
\* x-elevenlabs-api-key header
MintRequests == [method : {"GET", "POST"}, envKey : EnvKeys, headerKey : HeaderKeys]

\* What the token service's fetch gives: a rejection (network error); a
\* non-2xx response; a 2xx response whose body is not JSON (unreadable), is
\* the JSON null (nullBody), has no token (noToken), or has one.
MintReplies == {"rejected", "notOk", "unreadable", "nullBody", "noToken", "token"}

\* a key selection that prefers the header: headerKey || process.env...
apiKeyOf_HeaderFirst(req) ==
  IF req.headerKey.present /\ trim(req.headerKey.value) # <<>>
  THEN trim(req.headerKey.value)
  ELSE req.envKey

\* process.env.ELEVENLABS_API_KEY || headerKey, with
\* headerKey = req.headers.get("x-elevenlabs-api-key")?.trim(); <<>> is none
apiKeyOf(req) ==
  IF req.envKey # <<>> THEN req.envKey
  ELSE IF req.headerKey.present THEN trim(req.headerKey.value)
  ELSE <<>>

\* NextResponse.json({ token: data.token }, { status: 200 })
TokenResponse == [status |-> 200, token |-> "tok"]

\* GET and POST (the same code), up to the first response or to the await
\* of the fetch
Mint(req) ==
  /\ mintPc = "idle"
  /\ mintReq' = req
  /\ mintReply' = "none"
  /\ IF apiKeyOf(req) = <<>>
     THEN /\ mintResp' = ErrorResponse(500, "Missing ELEVENLABS_API_KEY.")
          /\ mintPc' = "done"
          /\ mintCalls' = <<>>
     ELSE /\ mintResp' = NoResponse
          /\ mintPc' = "upstream"
          /\ mintCalls' = <<apiKeyOf(req)>>
  /\ UNCHANGED <<relayReq, relayPc, upstreamCalls, upstreamReply, relayResp>>

\* GET and POST, from the fetch's answer to the response.  Nothing catches a
\* rejection of fetch or of resp.json(); data?.token tolerates the JSON null.
MintDone(up) ==
  /\ mintPc = "upstream"
  /\ mintPc' = "done"
  /\ mintReply' = up
  /\ mintResp' =
       IF up = "rejected" THEN UncaughtException
       ELSE IF up = "notOk" THEN ErrorResponse(502, "Failed to mint ElevenLabs token.")
       ELSE IF up = "unreadable" THEN UncaughtException
       ELSE IF up \in {"nullBody", "noToken"}
       THEN ErrorResponse(502, "ElevenLabs response missing token.")
       ELSE TokenResponse
  /\ UNCHANGED <<mintReq, mintCalls>>
  /\ UNCHANGED <<relayReq, relayPc, upstreamCalls, upstreamReply, relayResp>>

\* ------------------------------------------------------------------ Init
Init ==
  /\ isConnected = FALSE
  /\ isConnecting = FALSE
  /\ lastError = "null"
  /\ partialTranscript = EmptyText
  /\ committed = <<>>
  /\ connectionRef = 0
  /\ audioCleanupRef = 0
  /\ workletUrlRef = 0
  /\ audioContextRef = 0
  /\ mediaRecorderRef = 0
  /\ pc = [k \in Calls |-> "none"]
  /\ res = [k \in Calls |-> NoResources]
  /\ relCalls = [k \in Calls |-> NoCalls]
  /\ lastDisc = NoRun
  /\ connectCommitted = [k \in Calls |-> <<>>]
  /\ committedEvents = 0
  /\ relayReq = NoRequest
  /\ relayPc = "idle"
  /\ upstreamCalls = <<>>
  /\ upstreamReply = NoReply
  /\ relayResp = NoResponse
  /\ resampleCall = NoResample
  /\ mintReq = NoRequest
  /\ mintPc = "idle"
  /\ mintCalls = <<>>
  /\ mintReply = "none"
  /\ mintResp = NoResponse
  /\ pendingBytes = [k \in Calls |-> <<>>]
  /\ firstChunk = [k \in Calls |-> TRUE]
  /\ produced = [k \in Calls |-> 0]
  /\ callbacks = [k \in Calls |-> 0]
  /\ handed = [k \in Calls |-> <<>>]
  /\ inputLang = "auto"
  /\ targetLang = "en"
  /\ openaiKey = ""
  /\ partialTranslation = EmptyText
  /\ translated = <<>>
  /\ summary = ""
  /\ translatedIdsRef = {}
  /\ lastPartialSentRef = EmptyText
  /\ timers = {}
  /\ partialReqs = {}
  /\ committedReqs = {}
  /\ partialCleanup = FALSE
  /\ committedFresh = FALSE
  /\ nextLineId = 1
  /\ initiated = [i \in LineIds |->
                    [relay |-> 0, mirror |-> 0, inputLang |-> "", targetLang |-> ""]]
  /\ rendered = Latest

\* ---------------------------------------------------------- specifications
homeIdle == UNCHANGED <<homeVars, committedFresh, nextLineId, rendered, relayVars>>

hookIdle == UNCHANGED <<homeVars, rendered, relayVars>>

\* The session: connect calls and their failures, the connection's lifecycle
\* events and disconnect, with no transcript traffic and no failing release.
SessionNext ==
  \/ \E k \in Calls : ConnectCall(k) /\ homeIdle
  \/ \E k \in Calls, ok \in BOOLEAN : TokenDone(k, ok, {}) /\ homeIdle
  \/ \E k \in Calls, g, rec, cx \in BOOLEAN : GumDone(k, g, rec, cx, {}) /\ homeIdle
  \/ \E k \in Calls, o \in {"load", "graph", "ok"} : WorkletDone(k, o, {}) /\ homeIdle
  \/ Disconnect({}) /\ homeIdle
  \/ \E k \in Calls : OnOpen(k) /\ homeIdle
  \/ \E k \in Calls : OnClose(k) /\ homeIdle
  \/ \E k \in Calls : OnError(k) /\ homeIdle
  \/ Render

SpecSession == Init /\ [][SessionNext]_vars

\* Teardown: one connect call, with release steps that throw.
TeardownNext ==
  \/ ConnectCall(1) /\ homeIdle
  \/ \E ok \in BOOLEAN, f \in FailureSets : TokenDone(1, ok, f) /\ homeIdle
  \/ \E g, rec, cx \in BOOLEAN, f \in FailureSets : GumDone(1, g, rec, cx, f) /\ homeIdle
  \/ \E o \in {"load", "graph", "ok"}, f \in FailureSets : WorkletDone(1, o, f) /\ homeIdle
  \/ \E f \in FailureSets : Disconnect(f) /\ homeIdle
  \/ OnOpen(1) /\ homeIdle
  \/ OnClose(1) /\ homeIdle
  \/ Render

SpecTeardown == Init /\ [][TeardownNext]_vars

\* The committed-translation policy over one connection whose connect
\* succeeds.
CommittedNext ==
  \/ ConnectCall(1) /\ homeIdle
  \/ TokenDone(1, TRUE, {}) /\ homeIdle
  \/ OnOpen(1) /\ homeIdle
  \/ \E t \in CommittedTexts :
       /\ nextLineId <= MaxLines
       /\ trim(t) # EmptyText
       /\ OnCommitted(1, t)
       /\ hookIdle
  \/ Render
  \/ \E q \in committedReqs, reply \in Replies, so \in SummaryOutputs :
       CommittedResponse(q, reply, so)
  \/ \E l \in InputLangs : SetInputLang(l)
  \/ \E l \in TargetLangs : SetTargetLang(l)
  \/ \E v \in ApiKeys : SetOpenaiKey(v)
  \/ ClearSummary
  \/ ClearAll

Spec == Init /\ [][CommittedNext]_vars

\* The partial-translation preview over one connection; the committed
\* requests stay in flight.
PartialNext ==
  \/ ConnectCall(1) /\ homeIdle
  \/ TokenDone(1, TRUE, {}) /\ homeIdle
  \/ OnOpen(1) /\ homeIdle
  \/ OnClose(1) /\ homeIdle
  \/ Disconnect({}) /\ homeIdle
  \/ \E t \in PartialTexts : OnPartial(1, t) /\ hookIdle
  \/ nextLineId <= MaxLines /\ OnCommitted(1, <<" ", "a">>) /\ hookIdle
  \/ Render
  \/ \E t \in timers : PartialTimerFire(t)
  \/ \E q \in partialReqs, reply \in Replies : PartialResponse(q, reply)
  \/ \E l \in TargetLangs : SetTargetLang(l)

SpecPartial == Init /\ [][PartialNext]_vars


\* what the resampler returns for one worklet callback, in samples: a render
\* quantum of 128 samples at 48 kHz, one frame's worth, and two frames and more
PcmSamples == {43, 3200, 6500}

\* The chunk loop over one capture: worklet callbacks of several sizes while
\* the connection opens, closes and is torn down.
AudioNext ==
  \/ ConnectCall(1) /\ homeIdle
  \/ TokenDone(1, TRUE, {}) /\ homeIdle
  \/ GumDone(1, TRUE, TRUE, TRUE, {}) /\ homeIdle
  \/ WorkletDone(1, "ok", {}) /\ homeIdle
  \/ OnOpen(1) /\ homeIdle
  \/ OnClose(1) /\ homeIdle
  \/ Disconnect({}) /\ homeIdle
  \/ Render
  \/ \E n \in PcmSamples : callbacks[1] < MaxCallbacks /\ TapMessage(1, n) /\ homeIdle

SpecAudio == Init /\ [][AudioNext]_vars

\* the first connect of a session and one reconnect
Lifetimes == {1, 2}

\* A session that reconnects: the service commits lines once it has accepted
\* audio, each line rendered before the next transcript event arrives; the
\* session is stopped once connect has returned, and started again from a
\* page that has rendered all its updates; and each capture hands frames to
\* its connection.
ContextNext ==
  \/ \E k \in Lifetimes : Latest = rendered /\ ConnectCall(k) /\ homeIdle
  \/ \E k \in Lifetimes : TokenDone(k, TRUE, {}) /\ homeIdle
  \/ \E k \in Lifetimes : GumDone(k, TRUE, TRUE, TRUE, {}) /\ homeIdle
  \/ \E k \in Lifetimes : WorkletDone(k, "ok", {}) /\ homeIdle
  \/ \E k \in Lifetimes : OnOpen(k) /\ homeIdle
  \/ (\A k \in Lifetimes : pc[k] \in {"none", "done"}) /\ Disconnect({}) /\ homeIdle
  \/ \E k \in Lifetimes :
       /\ nextLineId <= MaxContextLines
       /\ Latest = rendered
       /\ \E i \in 1..Len(handed[k]) : handed[k][i].accepted
       /\ OnCommitted(k, <<"b">>)
       /\ hookIdle
  \/ Render
  \/ \E k \in Lifetimes :
       callbacks[k] < MaxContextFrames /\ TapMessage(k, 3200) /\ homeIdle

SpecContext == Init /\ [][ContextNext]_vars

\* The running summary: lines are committed and translated by the relay, which
\* answers with a new summary or none.
SummaryNext ==
  \/ ConnectCall(1) /\ homeIdle
  \/ TokenDone(1, TRUE, {}) /\ homeIdle
  \/ OnOpen(1) /\ homeIdle
  \/ nextLineId <= MaxSummaryLines /\ OnCommitted(1, <<"b">>) /\ hookIdle
  \/ Render
  \/ \E q \in committedReqs, reply \in {"fail", "ignore"}, so \in SummaryOutputs :
       CommittedResponse(q, reply, so)

SpecSummary == Init /\ [][SummaryNext]_vars


\* The transcript: partial and committed events, with and without text, over
\* one open connection, and Clear all.
TranscriptNext ==
  \/ ConnectCall(1) /\ homeIdle
  \/ TokenDone(1, TRUE, {}) /\ homeIdle
  \/ OnOpen(1) /\ homeIdle
  \/ \E t \in PartialTexts : OnPartial(1, t) /\ hookIdle
  \/ \E t \in CommittedTexts :
       committedEvents < MaxEvents /\ OnCommitted(1, t) /\ hookIdle
  \/ Render
  \/ ClearAll

SpecTranscript == Init /\ [][TranscriptNext]_vars

\* The resampler applied to inputs of every length at every rate.
ResampleNext ==
  \E len \in 0..MaxInput, r \in InputRates : Downsample(len, r) /\ homeIdle

SpecResample == Init /\ [][ResampleNext]_vars

\* partial texts that grow: by 5 characters, by 6, by 1, and one that
\* extends none of the others
GrowingTexts ==
  {<<"a">>, <<"a">> \o Chars(5), <<"a">> \o Chars(6), <<"b">>}

\* The debounce callback over partials that grow, in the languages chosen
\* before the session starts and the target chosen during it.
GrowthNext ==
  \/ \E l \in InputLangs : pc[1] = "none" /\ SetInputLang(l)
  \/ \E l \in TargetLangs : SetTargetLang(l)
  \/ ConnectCall(1) /\ homeIdle
  \/ TokenDone(1, TRUE, {}) /\ homeIdle
  \/ OnOpen(1) /\ homeIdle
  \/ \E t \in GrowingTexts : OnPartial(1, t) /\ hookIdle
  \/ Render
  \/ \E t \in timers : PartialTimerFire(t)
  \/ \E q \in partialReqs : PartialResponse(q, "text")

SpecGrowth == Init /\ [][GrowthNext]_vars

\* The running summary under everything that could write it: committed and
\* partial responses with any updatedSummary, and the Clear summary button.
SummaryWritesNext ==
  \/ SummaryNext
  \/ ClearSummary
  \/ OnPartial(1, <<"a">>) /\ hookIdle
  \/ \E t \in timers : PartialTimerFire(t)
  \/ \E q \in partialReqs, reply \in {"fail", "text"} : PartialResponse(q, reply)

SpecSummaryWrites == Init /\ [][SummaryWritesNext]_vars

\* res.updatedSummary of the relay's answer to the request for line id: each
\* answer carries its own summary text
updatedSummaryOf(id) == <<"S1", "S2", "S3", "S4", "S5">>[id]

\* Concurrent summary updates: lines are committed while earlier requests are
\* in flight, and the relay answers them in any order, each answer with its
\* own updatedSummary or with none.
SummaryOrderNext ==
  \/ ConnectCall(1) /\ homeIdle
  \/ TokenDone(1, TRUE, {}) /\ homeIdle
  \/ OnOpen(1) /\ homeIdle
  \/ nextLineId <= MaxSummaryLines /\ OnCommitted(1, <<"b">>) /\ hookIdle
  \/ Render
  \/ \E q \in committedReqs :
       \E so \in {"", updatedSummaryOf(q.sourceId)} :
         CommittedResponse(q, "ignore", so)

SpecSummaryOrder == Init /\ [][SummaryOrderNext]_vars

\* the awaits of connect: the token fetch, getUserMedia, the worklet load
Awaits == {"token", "gum", "worklet"}

\* Interrupted connects: the token and the microphone are granted, and
\* disconnect (the Stop button once the connection is open, or the unmount
\* cleanup) runs only while a connect call is suspended at one of its
\* awaits.  On an audio context that disconnect has closed, the worklet load
\* and the building of the graph may succeed or throw.
InterruptNext ==
  \/ \E k \in Calls : ConnectCall(k) /\ homeIdle
  \/ \E k \in Calls : TokenDone(k, TRUE, {}) /\ homeIdle
  \/ \E k \in Calls, rec \in BOOLEAN : GumDone(k, TRUE, rec, TRUE, {}) /\ homeIdle
  \/ \E k \in Calls, o \in {"load", "graph", "ok"} :
       /\ o = "ok" \/ res[k].ctx = "closed"
       /\ WorkletDone(k, o, {})
       /\ homeIdle
  \/ \E k \in Calls : OnOpen(k) /\ homeIdle
  \/ (\E k \in Calls : pc[k] \in Awaits) /\ Disconnect({}) /\ homeIdle
  \/ Render

SpecInterrupt == Init /\ [][InterruptNext]_vars

\* Reconnects: every connect succeeds and is started from a page that has
\* rendered all its updates; the service opens and closes the connections,
\* and the user stops the session.
ReconnectNext ==
  \/ \E k \in Calls : Latest = rendered /\ ConnectCall(k) /\ homeIdle
  \/ \E k \in Calls : TokenDone(k, TRUE, {}) /\ homeIdle
  \/ \E k \in Calls, rec \in BOOLEAN : GumDone(k, TRUE, rec, TRUE, {}) /\ homeIdle
  \/ \E k \in Calls : WorkletDone(k, "ok", {}) /\ homeIdle
  \/ \E k \in Calls : OnOpen(k) /\ homeIdle
  \/ \E k \in Calls : OnClose(k) /\ homeIdle
  \/ (\A k \in Calls : pc[k] \notin Awaits) /\ Disconnect({}) /\ homeIdle
  \/ Render

SpecReconnect == Init /\ [][ReconnectNext]_vars

\* Failures: connect calls whose token request, microphone request or
\* worklet load fails, and committed lines whose translate call fails; the
\* user starts again with the Start button.
FailureNext ==
  \/ \E k \in Calls : ConnectCall(k) /\ homeIdle
  \/ \E k \in Calls, ok \in BOOLEAN : TokenDone(k, ok, {}) /\ homeIdle
  \/ \E k \in Calls, g \in BOOLEAN : GumDone(k, g, TRUE, TRUE, {}) /\ homeIdle
  \/ \E k \in Calls, o \in {"load", "ok"} : WorkletDone(k, o, {}) /\ homeIdle
  \/ \E k \in Calls : OnOpen(k) /\ homeIdle
  \/ \E k \in Calls : nextLineId <= MaxLines /\ OnCommitted(k, <<"b">>) /\ hookIdle
  \/ Render
  \/ \E q \in committedReqs, reply \in {"fail", "text"} : CommittedResponse(q, reply, "")

SpecFailure == Init /\ [][FailureNext]_vars

clientIdle ==
  UNCHANGED <<hookVars, lastDisc, rendered, homeVars, committedFresh, nextLineId>>

\* The translate endpoint handling one request; it keeps no state from one
\* request to the next.
RelayNext ==
  \/ \E req \in Requests : POST(req) /\ clientIdle
  \/ \E up \in UpstreamReplies : UpstreamDone(up) /\ clientIdle

SpecRelay == Init /\ [][RelayNext]_vars

\* The token endpoint handling one request.
MintNext ==
  \/ \E req \in MintRequests : Mint(req) /\ clientIdle
  \/ \E up \in MintReplies : MintDone(up) /\ clientIdle

\* The relay endpoints handling one request, to either of them: they share
\* no state, and neither keeps any from one request to the next.
EndpointsNext ==
  \/ mintPc = "idle" /\ RelayNext
  \/ relayPc = "idle" /\ MintNext

SpecEndpoints == Init /\ [][EndpointsNext]_vars


\* ================================================================= claims
Ids(lines) == {lines[i].id : i \in 1..Len(lines)}

Initiations(id) == initiated[id].relay + initiated[id].mirror

\* C1: once a render has seen the whole committed history, exactly one
\* translation (one relay request or one mirror) has been initiated for every
\* line of it, however the committed_transcript events were spread over the
\* renders.
C1_ExactlyOneTranslationPerLine ==
  rendered.committed = committed =>
    \A i \in 1..Len(committed) : Initiations(committed[i].id) = 1

\* C2: no committed line id ever gets a second relay request or a second
\* mirror, whatever re-runs the effect, and no two translated lines share a
\* sourceId.
C2_NoSecondTranslation ==
  /\ \A id \in LineIds : Initiations(id) <= 1
  /\ \A i, j \in 1..Len(translated) :
       i # j => translated[i].sourceId # translated[j].sourceId

\* The effect has re-run with an unchanged one-line history after the summary,
\* the output language and the API key each changed.
C2_Witness ==
  /\ Len(committed) = 1
  /\ rendered.committed = committed
  /\ rendered.summary = "S1"
  /\ rendered.targetLang = "ja"
  /\ rendered.openaiKey = "sk"
  /\ initiated[committed[1].id].relay = 1
  /\ Len(translated) = 1

Outstanding == {q \in partialReqs : ~q.aborted}

\* C3: at most one partial-translation request is outstanding and not
\* cancelled, and none is while a debounce timer is pending: pending timers
\* and outstanding requests together never number more than one.
C3_OnePartialOutstanding ==
  Cardinality(timers) + Cardinality(Outstanding) <= 1

\* An earlier request is cancelled and still in flight while a later one is
\* outstanding.
C3_Witness ==
  /\ \E q \in partialReqs : q.aborted
  /\ Cardinality(Outstanding) = 1

\* C4: the settling of a cancelled partial-translation request leaves the
\* displayed partial translation as it is.
C4_CancelledResponseIgnored ==
  [][(\E q \in partialReqs : q.aborted /\ partialReqs' = partialReqs \ {q})
       => partialTranslation' = partialTranslation]_vars

\* A cancelled request is still in flight while the preview shows the
\* translation of a later, different partial.
C4_Witness ==
  \E q \in partialReqs :
    /\ q.aborted
    /\ partialTranslation # EmptyText
    /\ partialTranslation # trim(translationOf(q.text, "text"))

\* C5: a connect call gets past its guard (and issues a token request) only
\* when the session is neither connected nor connecting.
C5_ConnectNoOpWhenBusy ==
  [][(\E k \in Calls : pc[k] = "none" /\ pc'[k] = "token")
       => ~(isConnected \/ isConnecting)]_vars

\* C6: no connection is closed while the microphone stream of its capture is
\* live and the tap handler still hands frames to send.
C6_TornDownTogether ==
  \A k \in Calls :
    res[k].conn = "closed" => ~(res[k].stream = "live" /\ res[k].handler)

\* C7: after a connect attempt ended in its catch, no resource the attempt
\* acquired is still held.
C7_FailedConnectReleasesAll ==
  \A k \in Calls :
    pc[k] = "failed" =>
      /\ res[k].conn \notin {"connecting", "open"}
      /\ res[k].stream # "live"
      /\ res[k].recorder # "recording"
      /\ res[k].ctx # "running"

AllRefsNull ==
  /\ connectionRef = 0
  /\ audioCleanupRef = 0
  /\ mediaRecorderRef = 0
  /\ audioContextRef = 0
  /\ workletUrlRef = 0

\* C8: a run of disconnect never throws, invokes each release at most once per
\* resource, leaves the session not connected, not connecting and every
\* handle null, and a disconnect that follows a disconnect changes nothing.
C8_DisconnectIdempotentTotal ==
  /\ [](/\ ~lastDisc.threw
        /\ \A k \in Calls :
             /\ relCalls[k].close <= 1
             /\ relCalls[k].cleanup <= 1
             /\ relCalls[k].stop <= 1
             /\ relCalls[k].ctxClose <= 1
             /\ relCalls[k].revoke <= 1
        /\ lastDisc.ran => (AllRefsNull /\ ~isConnected /\ ~isConnecting))
  /\ [][(lastDisc.ran /\ lastDisc'.ran /\ pc' = pc) => UNCHANGED hookVars]_vars

\* disconnect ran while the connect call was suspended at the worklet load:
\* the connection, the recorder and the context were released, nothing else
\* was held.
C8_Witness ==
  /\ lastDisc.ran
  /\ pc[1] = "worklet"
  /\ relCalls[1] = [close |-> 1, cleanup |-> 0, stop |-> 1, ctxClose |-> 1,
                    revoke |-> 0]

\* C9: in every run of disconnect, each release step whose handle is set is
\* invoked, whichever steps throw, and every handle is null afterwards.
C9_ReleaseStepsIsolated ==
  [][lastDisc'.ran =>
       /\ connectionRef # 0 =>
            relCalls'[connectionRef].close = Bump(relCalls[connectionRef].close)
       /\ audioCleanupRef # 0 =>
            relCalls'[audioCleanupRef].cleanup =
              Bump(relCalls[audioCleanupRef].cleanup)
       /\ mediaRecorderRef # 0 =>
            relCalls'[mediaRecorderRef].stop =
              Bump(relCalls[mediaRecorderRef].stop)
       /\ audioContextRef # 0 =>
            relCalls'[audioContextRef].ctxClose =
              Bump(relCalls[audioContextRef].ctxClose)
       /\ workletUrlRef # 0 =>
            relCalls'[workletUrlRef].revoke = Bump(relCalls[workletUrlRef].revoke)
       /\ AllRefsNull']_vars

\* close() threw (the connection is still open after its release was invoked)
\* and the audio cleanup, the recorder, the context and the URL were released
\* all the same.
C9_Witness ==
  /\ lastDisc.ran
  /\ relCalls[1].close = 1
  /\ res[1].conn = "open"
  /\ res[1].stream = "stopped"
  /\ res[1].recorder = "stopped"
  /\ res[1].ctx = "closed"
  /\ res[1].url = "revoked"
  /\ AllRefsNull

HandledSameLanguage(id) ==
  /\ Initiations(id) > 0
  /\ initiated[id].inputLang # "auto"
  /\ initiated[id].inputLang = initiated[id].targetLang

Pos(id) == CHOOSE j \in 1..Len(committed) : committed[j].id = id

\* C10: a line the effect handled while the input language was not auto and
\* equal to the output language got no relay request and one mirror; its
\* translated line carries the line's id and its text verbatim; and these
\* translated lines stand in the order of their source lines.
C10_SameLanguageMirror ==
  /\ \A id \in LineIds :
       HandledSameLanguage(id) =>
         /\ initiated[id].relay = 0
         /\ initiated[id].mirror = 1
         /\ \A j \in 1..Len(committed) :
              committed[j].id = id =>
                \E i \in 1..Len(translated) :
                  translated[i] = [sourceId |-> id, text |-> committed[j].text]
  /\ \A i \in 1..Len(translated) :
       HandledSameLanguage(translated[i].sourceId) =>
         /\ translated[i].sourceId \in Ids(committed)
         /\ translated[i].text = committed[Pos(translated[i].sourceId)].text
         /\ \A j \in 1..Len(translated) :
              (i < j /\ HandledSameLanguage(translated[j].sourceId)) =>
                Pos(translated[i].sourceId) < Pos(translated[j].sourceId)

\* Two different lines committed under en / en, both mirrored in order, and no
\* relay request made.
C10_Witness ==
  /\ inputLang = "en"
  /\ targetLang = "en"
  /\ Len(committed) = 2
  /\ committed[1].text # committed[2].text
  /\ translated = <<mirrorLine(committed[1]), mirrorLine(committed[2])>>
  /\ committedReqs = {}
  /\ \A id \in LineIds : initiated[id].relay = 0


\* C11: a committed-translation relay request carries updateSummary = true
\* exactly when, as it is issued, the running summary is empty or the number
\* of committed lines is a multiple of 4.
C11_UpdateSummaryFlag ==
  [][\A q \in committedReqs' \ committedReqs :
       q.updateSummary <=> (summary' = "" \/ Len(committed') % 4 = 0)]_vars

\* The request for the fourth line was issued with the flag while a summary
\* exists, and the request for the third line without it.
C11_Witness ==
  /\ summary # ""
  /\ \E q \in committedReqs : q.sourceId = 4 /\ q.updateSummary
  /\ \E q \in committedReqs : q.sourceId = 3 /\ ~q.updateSummary

\* C12: in a session that starts with an empty summary, the request for the
\* committed line of index i asks for a summary update exactly when i is 1 or
\* a multiple of 4, however committed events and relay responses interleave.
C12_SummaryOnFirstAndEveryFourth ==
  \A q \in committedReqs :
    q.updateSummary <=> (q.sourceId = 1 \/ q.sourceId % 4 = 0)

\* the bytes of the frames of h, in the order they were handed to send
RECURSIVE FramesBytes(_)
FramesBytes(h) == IF h = <<>> THEN <<>> ELSE Cat(Head(h).bytes, FramesBytes(Tail(h)))

\* the resampled byte stream capture k has produced so far
Stream(k) == IF produced[k] = 0 THEN <<>> ELSE <<[lo |-> 1, hi |-> produced[k]]>>

\* C13: in one capture, after any sequence of worklet callbacks, the number of
\* frames handed to send is floor(totalBytes / 6400), the remainder is in the
\* pending buffer, and the frames in emission order followed by the pending
\* buffer are the produced byte stream: no byte duplicated, dropped or moved.
C13_FramesPartitionStream ==
  \A k \in Calls :
    /\ Len(handed[k]) = produced[k] \div 6400
    /\ Size(pendingBytes[k]) = produced[k] % 6400
    /\ Cat(FramesBytes(handed[k]), pendingBytes[k]) = Stream(k)

\* Two callbacks, of 13000 and 6400 bytes: three frames, the third made of the
\* remainder of the first callback and bytes of the second, and 200 bytes left.
C13_Witness ==
  /\ callbacks[1] = 2
  /\ produced[1] = 19400
  /\ Len(handed[1]) = 3
  /\ Size(pendingBytes[1]) = 200

\* C14: every frame handed to the transcription connection has exactly
\* 16000 Hz x 0.2 s x 2 bytes = 6400 bytes, and after every worklet callback
\* the pending buffer holds fewer than 6400 bytes.
C14_FrameSize ==
  \A k \in Calls :
    /\ \A i \in 1..Len(handed[k]) : Size(handed[k][i].bytes) = (16000 * 2) \div 5
    /\ Size(pendingBytes[k]) < (16000 * 2) \div 5

\* A frame was cut from a render quantum's 86 bytes and a callback of 6400
\* bytes, and 86 bytes stay pending.
C14_Witness ==
  /\ callbacks[1] = 2
  /\ Len(handed[1]) = 1
  /\ Size(pendingBytes[1]) = 86

\* the arrays p and q have a byte of the stream in common
Overlap(p, q) ==
  \E i \in 1..Len(p), j \in 1..Len(q) : p[i].lo <= q[j].hi /\ q[j].lo <= p[i].hi

\* C15: a frame that is ready while the connection is not open is dropped: its
\* bytes are no longer pending and are in no later frame; frames keep being
\* cut and handed to send, and are accepted exactly when the connection is
\* open at that time; and the pending buffer never holds more than one frame.
C15_DroppedNotQueued ==
  /\ [](\A k \in Calls :
          /\ Size(pendingBytes[k]) <= 6400
          /\ \A i \in 1..Len(handed[k]) :
               ~handed[k][i].accepted =>
                 /\ ~Overlap(handed[k][i].bytes, pendingBytes[k])
                 /\ \A j \in (i + 1)..Len(handed[k]) :
                      ~Overlap(handed[k][i].bytes, handed[k][j].bytes))
  /\ [][\A k \in Calls :
          /\ Len(handed'[k]) = produced'[k] \div 6400
          /\ \A j \in (Len(handed[k]) + 1)..Len(handed'[k]) :
               handed'[k][j].accepted <=> (res[k].conn = "open")]_vars

\* Frames were refused while the connection was opening, a later frame was
\* accepted, and bytes of a further frame are pending.
C15_Witness ==
  /\ Len(handed[1]) = 3
  /\ ~handed[1][1].accepted
  /\ ~handed[1][2].accepted
  /\ handed[1][3].accepted
  /\ pendingBytes[1] # <<>>

\* the texts of lines i.. of the history, joined by newline
RECURSIVE JoinFrom(_, _)
JoinFrom(lines, i) ==
  IF i > Len(lines) THEN <<>>
  ELSE IF i = Len(lines) THEN lines[i].text
  ELSE lines[i].text \o <<"\n">> \o JoinFrom(lines, i + 1)

\* the texts of the last min(12, n) lines of a history of n lines
ContextOf(lines) ==
  LET n == Len(lines)
      m == IF n < 12 THEN n ELSE 12
  IN JoinFrom(lines, n - m + 1)

C17_TranscriptEvents ==
  [][/\ (committedEvents' # committedEvents) =>
          /\ partialTranscript' = EmptyText
          /\ Len(committed') = Len(committed) + 1
          /\ SubSeq(committed', 1, Len(committed)) = committed
     /\ (/\ partialTranscript' # partialTranscript
         /\ committedEvents' = committedEvents
         /\ pc' = pc
         /\ nextLineId' = nextLineId
         /\ translated' = translated) =>
          /\ partialTranscript' \in PartialTexts
          /\ committed' = committed]_vars

\* the upstream content is malformed: missing, not JSON, or JSON without a
\* string translation field
Malformed(up) ==
  up.ok /\ (up.content \in {"missing", "notJson", "null"} \/ ~up.translation.isString)

\* C18: the relay never turns a malformed upstream response into a success:
\* it answers 502, never a 200 translation result.
C18_MalformedUpstreamIs502 ==
  (relayPc = "done" /\ upstreamReply # NoReply /\ Malformed(upstreamReply))
    => relayResp.status = 502

\* C19: every 200 response of the translate endpoint has an updatedSummary of
\* at most 800 characters, for every request and any upstream output.
C19_SummaryAtMost800 ==
  (relayPc = "done" /\ relayResp.status = 200)
    => Len(relayResp.updatedSummary) <= 800

\* the request has a text that is empty or only whitespace
EmptyTextRequest(req) ==
  req.body.valid /\ ~req.body.isNull /\ trim(req.body.text) = <<>>

\* the short-circuit answer to req, from no upstream call
ShortCircuited(req) ==
  /\ relayResp.status = 200
  /\ relayResp.shouldIgnore = FALSE
  /\ relayResp.translation = <<>>
  /\ relayResp.updatedSummary = req.body.summary
  /\ upstreamCalls = <<>>

\* C20, as claimed: every translate request whose text is empty or only
\* whitespace is answered with shouldIgnore = false, an empty translation and
\* the request's summary, and no upstream call is made.
C20_EmptyTextAlways ==
  (relayPc = "done" /\ EmptyTextRequest(relayReq)) => ShortCircuited(relayReq)

\* C20, amended: every translate request for which an API key is available
\* (in the server's environment or in the x-openai-api-key header) and whose
\* text is empty or only whitespace is answered with shouldIgnore = false, an
\* empty translation and the request's summary, and no upstream call is made.
C20_EmptyTextShortCircuit ==
  (relayPc = "done" /\ EmptyTextRequest(relayReq) /\ getOpenAIKey(relayReq) # <<>>)
    => ShortCircuited(relayReq)

\* A request with the key in its header, a blank text and a summary of 801
\* characters was answered with that summary.
C20_Witness ==
  /\ relayPc = "done"
  /\ relayReq.envKey = <<>>
  /\ getOpenAIKey(relayReq) # <<>>
  /\ relayReq.body.valid
  /\ relayReq.body.text = <<" ">>
  /\ Len(relayReq.body.summary) = 801
  /\ ShortCircuited(relayReq)

\* the handler has returned a response that is not a success
RelayFailed == relayPc = "done" /\ relayResp.status # 200
MintFailed == mintPc = "done" /\ mintResp.status # 200

\* the response is a JSON error body with an explicit status
Structured(resp) == "error" \in DOMAIN resp /\ resp.status \in {400, 500, 502}

\* the upstream call of the translate endpoint failed: a non-2xx status, a
\* network error, or an unreadable or non-JSON upstream body
UpstreamFailed(up) ==
  up # NoReply /\ up.content \in {"rejected", "none", "unreadable", "nullBody",
                                    "missing", "notJson"}

\* C21: every failure of a relay endpoint yields a structured JSON error body
\* with an explicit status: 500 for a missing key, 400 for an invalid JSON
\* request body, 502 for an upstream failure; no failure of the upstream
\* call escapes the handler as an uncaught exception.
C21_FailuresAreStructured ==
  /\ RelayFailed =>
       /\ Structured(relayResp)
       /\ getOpenAIKey(relayReq) = <<>> => relayResp.status = 500
       /\ (getOpenAIKey(relayReq) # <<>> /\ ~relayReq.body.valid) =>
            relayResp.status = 400
       /\ UpstreamFailed(upstreamReply) => relayResp.status = 502
  /\ MintFailed =>
       /\ Structured(mintResp)
       /\ apiKeyOf(mintReq) = <<>> => mintResp.status = 500
       /\ mintReply \in {"rejected", "notOk", "unreadable", "nullBody", "noToken"} =>
            mintResp.status = 502

\* the request carries a key header that is not blank
HasHeader(req) == req.headerKey.present /\ trim(req.headerKey.value) # <<>>

\* the key the endpoints used for the requests they have handled
KeyChoice(req, at, calls, resp, header(_)) ==
  at # "idle" =>
    /\ (req.envKey # <<>> /\ HasHeader(req)) =>
         (calls # <<>> => header(calls[1]) = trim(req.headerKey.value))
    /\ (req.envKey # <<>> /\ ~HasHeader(req)) =>
         (calls # <<>> => header(calls[1]) = req.envKey)
    /\ (req.envKey = <<>> /\ HasHeader(req)) =>
         (calls # <<>> => header(calls[1]) = trim(req.headerKey.value))
    /\ (req.envKey = <<>> /\ ~HasHeader(req)) =>
         (at = "done" /\ resp.status = 500 /\ calls = <<>>)

\* the same, with the environment key first
KeyChoiceEnvFirst(req, at, calls, resp, header(_)) ==
  at # "idle" =>
    /\ req.envKey # <<>> =>
         (calls # <<>> => header(calls[1]) = req.envKey)
    /\ (req.envKey = <<>> /\ HasHeader(req)) =>
         (calls # <<>> => header(calls[1]) = trim(req.headerKey.value))
    /\ (req.envKey = <<>> /\ ~HasHeader(req)) =>
         (at = "done" /\ resp.status = 500 /\ calls = <<>>)

Bearer(call) == call.authorization
XiApiKey(call) == call

\* C23, as claimed: for both endpoints, when the environment has a key and
\* the request carries the key header, the header value is the key used;
\* when only one of the two is present that one is used; when neither is
\* present the request fails with 500.
C23_HeaderOverridesEnv ==
  /\ KeyChoice(relayReq, relayPc, upstreamCalls, relayResp, Bearer)
  /\ KeyChoice(mintReq, mintPc, mintCalls, mintResp, XiApiKey)

\* C23, amended: for both endpoints, when the environment has a key it is
\* the key used, whether or not the request carries the key header; when
\* only the header is present its trimmed value is used; when neither is
\* present (a blank header counting as absent) the request fails with 500.
C23_EnvKeyFirst ==
  /\ KeyChoiceEnvFirst(relayReq, relayPc, upstreamCalls, relayResp, Bearer)
  /\ KeyChoiceEnvFirst(mintReq, mintPc, mintCalls, mintResp, XiApiKey)

\* The translate endpoint answered a request that had both keys, having
\* called upstream with the environment's.
C23_Witness ==
  /\ relayPc = "done" /\ relayReq.envKey # <<>> /\ HasHeader(relayReq)
  /\ upstreamCalls # <<>> /\ upstreamCalls[1].authorization = relayReq.envKey
  /\ relayResp.status = 200

\* a step in which connect call k fails: its token request, its microphone
\* request or its worklet load
ConnectFails(k) ==
  \/ TokenDone(k, FALSE, {})
  \/ GumDone(k, FALSE, TRUE, TRUE, {})
  \/ WorkletDone(k, "load", {})

\* a step in which the translate call of a committed line fails
TranslateFails == \E q \in committedReqs : CommittedResponse(q, "fail", "")

\* C22: there is no retry: a failed token mint, a failed connect and a failed
\* translate call each issue one request, surface as an error to the user
\* and are abandoned; a committed line whose translate call failed is never
\* requested again.
C22_NoRetryErrorSurfaced ==
  /\ [](\A id \in LineIds : initiated[id].relay <= 1)
  /\ [][\A k \in Calls : pc[k] = "failed" => pc'[k] = "failed"]_vars
  /\ [][\A k \in Calls : ConnectFails(k) => lastError' = "error"]_vars
  /\ [][TranslateFails => lastError' = "error"]_vars

\* the integer nearest to n / 3 (n / 3 is never half way between two)
NearestThird(n) == CHOOSE m \in 0..n : 3 * m - n \in {-1, 0, 1}

Resampled == resampleCall # NoResample

\* C24, as claimed: the output length is determined by the input length: N
\* samples when the rates are equal, and round(N / 3) samples for a 48 kHz
\* to 16 kHz conversion, for every N >= 0.
C24_OutputLength ==
  Resampled =>
    /\ resampleCall.inputRate = 16000 => resampleCall.out = resampleCall.length
    /\ resampleCall.inputRate = 48000 =>
         resampleCall.out = NearestThird(resampleCall.length)

\* C24, amended: N samples when the rates are equal, and for a 48 kHz to
\* 16 kHz conversion round(N / 3) samples but never fewer than one: one
\* sample for N = 0 and N = 1.
C24_OutputLengthAtLeastOne ==
  Resampled =>
    /\ resampleCall.inputRate = 16000 => resampleCall.out = resampleCall.length
    /\ resampleCall.inputRate = 48000 =>
         resampleCall.out =
           IF NearestThird(resampleCall.length) < 1 THEN 1
           ELSE NearestThird(resampleCall.length)

\* A render quantum of 128 samples at 48 kHz was resampled to 43 samples.
C24_Witness ==
  /\ resampleCall.length = 128
  /\ resampleCall.inputRate = 48000
  /\ resampleCall.out = 43

\* a committed_transcript event has arrived since the render that armed the
\* pending debounce timers
CommittedSincePartial == timers # {} /\ committed # rendered.committed

\* the step issues a partial-translation request for the text of timer t
IssuesFor(t) ==
  \E q \in partialReqs' : q.cur /\ ~q.aborted /\ q.text = t.text /\ q \notin partialReqs

\* C25: when a committed_transcript event arrives while the debounce timer of
\* an earlier partial is pending, the partial is cleared at once, no
\* partial-translation request is ever issued for the superseded text, and
\* the partial translation shown is empty until a new partial arrives.
C25_CommittedSupersedesPartial ==
  /\ [][Len(committed') = Len(committed) + 1 => partialTranscript' = EmptyText]_vars
  /\ [][\A t \in timers :
          (CommittedSincePartial /\ PartialTimerFire(t)) => ~IssuesFor(t)]_vars
  /\ [](trim(rendered.partialTranscript) = EmptyText => partialTranslation = EmptyText)

\* T extends P: P is a prefix of T
Extends(T, P) == \E n \in 0..Len(T) : SubSeq(T, 1, n) = P

\* the suppression rule for the text T after the sent text P
Suppressed(T, P) == P # <<>> /\ Extends(T, P) /\ Len(T) < Len(P) + 6

\* C26, as claimed: when the debounce timer fires for the partial text T, a
\* partial-translation request is issued unless T starts with the previously
\* sent text P (non-empty) and is fewer than 6 characters longer; the
\* previously-sent text becomes T exactly when the rule did not apply.
C26_SmallGrowthSuppressed ==
  [][\A t \in timers : PartialTimerFire(t) =>
       IF Suppressed(t.text, lastPartialSentRef)
       THEN ~IssuesFor(t) /\ lastPartialSentRef' = lastPartialSentRef
       ELSE IssuesFor(t) /\ lastPartialSentRef' = t.text]_vars

\* C26, amended: as claimed, except that when the rule does not apply and
\* the input language is set and equal to the output language, no request is
\* issued: T itself is shown as the partial translation.
C26_SmallGrowthSuppressedOrMirrored ==
  [][\A t \in timers : PartialTimerFire(t) =>
       IF Suppressed(t.text, lastPartialSentRef)
       THEN ~IssuesFor(t) /\ lastPartialSentRef' = lastPartialSentRef
       ELSE /\ lastPartialSentRef' = t.text
            /\ IF t.inputLang # "auto" /\ t.inputLang = outLang(t.targetLang)
               THEN ~IssuesFor(t) /\ partialTranslation' = t.text
               ELSE IssuesFor(t)]_vars

\* After "a" was sent, the timer of the partial that is 6 characters longer
\* is pending, while the request for "a" is still in flight, cancelled.
C26_Witness ==
  /\ lastPartialSentRef = <<"a">>
  /\ \E t \in timers : t.text = <<"a">> \o Chars(6)
  /\ \E q \in partialReqs : q.text = <<"a">> /\ q.aborted

\* the step is the arrival of a non-empty updatedSummary in answer to a
\* committed-translation request that was issued with updateSummary = true
FlaggedSummaryArrives ==
  \E q \in committedReqs :
    /\ q.updateSummary
    /\ committedReqs' = committedReqs \ {q}
    /\ summary' # ""

\* C27: apart from Clear summary, the running summary changes only when the
\* response to a committed-translation request issued with updateSummary =
\* true arrives with a non-empty updatedSummary; partial responses and
\* responses to requests with updateSummary = false leave it unchanged.
C27_SummaryWrittenOnlyWhenFlagged ==
  /\ [][summary' # summary => (ClearSummary \/ FlaggedSummaryArrives)]_vars
  /\ [][(\E q \in partialReqs : partialReqs' = partialReqs \ {q})
          => summary' = summary]_vars
  /\ [][(\E q \in committedReqs :
            ~q.updateSummary /\ committedReqs' = committedReqs \ {q})
          => summary' = summary]_vars

\* The summary was written, and a partial request and a committed request
\* issued with updateSummary = false are in flight.
C27_Witness ==
  /\ summary = "S1"
  /\ \E q \in committedReqs : ~q.updateSummary
  /\ partialReqs # {}

\* C28: the session never stays in connecting: once the connect call's
\* awaits have completed and the connection has emitted open, error or
\* close, the session becomes connected or returns to idle; in particular an
\* error event received before open returns the session to idle.  Stated
\* for the step of that error event.
C28_ErrorBeforeOpenReturnsToIdle ==
  [][\A k \in Calls :
       (res[k].conn = "connecting" /\ OnError(k))
         => (~isConnecting' /\ ~isConnected')]_vars

\* the place of each release operation in the order of teardown: the
\* transcription connection, the audio graph, the local recorder, the audio
\* context, the worklet blob URL
Rank(op) ==
  CASE op = "close" -> 1 [] op = "cleanup" -> 2 [] op = "stop" -> 3
    [] op = "ctxClose" -> 4 [] op = "revoke" -> 5

\* C29: every run of disconnect releases the resources it holds in the fixed
\* order connection, audio graph, recorder, audio context, blob URL: no later
\* resource is released before an earlier one that is held.
C29_ReleaseOrder ==
  lastDisc.ran =>
    \A i, j \in 1..Len(lastDisc.order) :
      i < j => Rank(lastDisc.order[i]) < Rank(lastDisc.order[j])

\* A run of disconnect released all five resources.
C29_Witness ==
  /\ lastDisc.ran
  /\ lastDisc.order = <<"close", "cleanup", "stop", "ctxClose", "revoke">>

\* connect call k holds a resource
Held(k) ==
  \/ res[k].conn \in {"connecting", "open"}
  \/ res[k].stream = "live"
  \/ res[k].recorder = "recording"
  \/ res[k].ctx = "running"

\* C30: if disconnect runs while a connect call is suspended at one of its
\* awaits, then once the call has finished no resource is left held while
\* the session is idle: no open connection, no live microphone stream, no
\* running recorder, no open audio context.
C30_InterruptedConnectHoldsNothing ==
  (/\ ~isConnected /\ ~isConnecting
   /\ \A k \in Calls : pc[k] \notin Awaits)
    => \A k \in Calls : ~Held(k)

\* the audio-capture pipeline of connect call k is live: its microphone
\* stream, its audio context or its worklet tap
PipelineLive(k) ==
  res[k].stream = "live" \/ res[k].ctx = "running" \/ res[k].handler

\* C31: at most one audio-capture pipeline is live, and it is the one the
\* cleanup handle refers to, so that one disconnect releases every live
\* capture resource; also when connect is invoked again after the service
\* closed the previous connection and disconnect has not run.  Stated for the
\* states in which every connect call has returned.
C31_OnePipelineUnderHandle ==
  (\A k \in Calls : pc[k] \notin Awaits) =>
    /\ Cardinality({k \in Calls : PipelineLive(k)}) <= 1
    /\ \A k \in Calls : PipelineLive(k) => audioCleanupRef = k

\* the partial translations the relay computes from T or from a prefix of T
\* at most 5 characters shorter
NearTranslations(T) ==
  {trim(translationOf(SubSeq(T, 1, n), "text")) :
     n \in {m \in 1..Len(T) : Len(T) - m <= 5}}

\* the partial text T has been rendered in a connected session, its debounce
\* delay has passed and every request that was not cancelled has been answered
Settled(T) ==
  /\ Latest = rendered
  /\ isConnected
  /\ ~sameLanguage(inputLang, targetLang)
  /\ trim(partialTranscript) = T
  /\ T # EmptyText
  /\ timers = {}
  /\ \A q \in partialReqs : q.aborted

\* C32: while the session is connected and the languages differ, once the
\* partial transcript has stayed at a non-empty text T for the debounce delay
\* and the relay has answered every request that was not cancelled, the
\* preview shows a translation computed from T or from a prefix of T at most
\* 5 characters shorter: the small-growth rule never leaves the preview
\* without a completed translation because the earlier request was cancelled.
C32_SettledPartialIsTranslated ==
  \A T \in GrowingTexts : Settled(T) => partialTranslation \in NearTranslations(T)

\* the ids of the lines of the committed history
CommittedIds == {committed[j].id : j \in 1..Len(committed)}

\* C33: each translated line's sourceId is the id of a line of the current
\* committed history: after Clear all, the response of a committed-translation
\* request issued before the clear never appends a translated line.
C33_TranslatedLinesHaveSources ==
  \A i \in 1..Len(translated) : translated[i].sourceId \in CommittedIds

\* the running summary was set by the response to a request issued after q
SetByLater(q) ==
  \E id \in (q.sourceId + 1)..(nextLineId - 1) : summary = updatedSummaryOf(id)

\* C34: when several committed-translation requests with updateSummary=true
\* are in flight at once and their responses arrive out of submission order,
\* the response of an earlier-issued request never overwrites the running
\* summary already set by the response of a later-issued request, so that
\* after all responses the summary is the one returned for the latest-issued
\* summary-updating request.  Stated for the step of each response.
C34_EarlierResponseKeepsLaterSummary ==
  [][\A q \in committedReqs :
       (/\ q.updateSummary
        /\ SetByLater(q)
        /\ \E so \in {"", updatedSummaryOf(q.sourceId)} :
             CommittedResponse(q, "ignore", so))
       => summary' = summary]_vars

====
